---- MODULE Spec2Model ----
(***************************************************************************)
(* Suspicious-event service: the range store, the flag store, the          *)
(* classification engine (crud.process_event) and the HTTP boundary        *)
(* (app.py), over a PostgreSQL store reached through `databases`/asyncpg.  *)
(*                                                                         *)
(* Every `await database....` of the source is one statement executed in   *)
(* autocommit mode (no `database.transaction()` is ever opened), and every *)
(* await is a point where another request's coroutine may run.  Hence one  *)
(* action per awaited statement of process_event, and one action per       *)
(* range endpoint (each runs a single statement).                          *)
(***************************************************************************)
EXTENDS Integers, Sequences, FiniteSets, TLC

VARIABLES
    suspicious_ip_ranges,  \* models.py: table suspicious_ip_ranges (set of cidr values)
    flagged_users,         \* models.py: table flagged_users (set of usernames)
    flagged_ips,           \* models.py: table flagged_ips (set of inet values)
    events,                \* models.py: table events, rows in insertion (id) order
    resp,                  \* last response of a range endpoint / containment probe
    pc,                    \* per request task: position in process_event_endpoint
    batch,                 \* per request task: the validated List[Event] of the request
    idx,                   \* per request task: index of the event being processed
    user_is_flagged,       \* process_event local (crud.py:119)
    ip_is_flagged,         \* process_event local (crud.py:120)
    ip_is_suspicious,      \* process_event local (crud.py:121)
    is_suspicious,         \* process_event local (crud.py:118,124)
    results,               \* process_event_endpoint local `results` (app.py:124)
    err                    \* exception that ended the request task, if any

vars == <<suspicious_ip_ranges, flagged_users, flagged_ips, events, resp, pc, batch,
          idx, user_is_flagged, ip_is_flagged, ip_is_suspicious, is_suspicious,
          results, err>>

storeVars == <<suspicious_ip_ranges, flagged_users, flagged_ips, events>>
taskVars == <<pc, batch, idx, user_is_flagged, ip_is_flagged, ip_is_suspicious,
              is_suspicious, results, err>>

----------------------------------------------------------------------------
(* Bounds of the model *)

\* most rows the suspicious_ip_ranges table holds in the model
MaxRanges == 2

\* most rows the events table holds in the model
MaxEvents == 2
MaxLog == 4

----------------------------------------------------------------------------
(* Network addresses.  An address is its family and its bytes in network   *)
(* order (4 bytes for IPv4, 16 for IPv6), as PostgreSQL's inet_struct and  *)
(* Python's ipaddress keep it.                                             *)

\* number of address bytes of a family
AddrLen(fam) == IF fam = 4 THEN 4 ELSE 16

\* number of address bits of a family (ipaddress max_prefixlen, ip_maxbits)
MaxBits(fam) == 8 * AddrLen(fam)

Pow2(n) == 2 ^ n

\* the inet value asyncpg sends for an ipaddress.IPv4Address/IPv6Address:
\* a host address, netmask length = full width
Inet(fam, bytes) == [fam |-> fam, bytes |-> bytes, bits |-> MaxBits(fam)]

\* byte i (1-based) of `bytes` with everything right of the first `bits`
\* bits cleared
MaskByte(bytes, bits, i) ==
    LET lo == 8 * (i - 1)
    IN  IF bits >= lo + 8 THEN bytes[i]
        ELSE IF bits <= lo THEN 0
        ELSE (bytes[i] \div Pow2(8 - (bits - lo))) * Pow2(8 - (bits - lo))

\* the address with its host bits cleared (network address of addr/bits)
NetworkAddress(bytes, bits) == [i \in 1..Len(bytes) |-> MaskByte(bytes, bits, i)]

\* ipaddress: `if packed & hostmask != 0` -- are there bits right of the mask
HasHostBits(bytes, bits) == NetworkAddress(bytes, bits) # bytes

----------------------------------------------------------------------------
(* CIDR and address text, as it arrives in a request.  A text is modelled  *)
(* by what the parsers read from it: "a.b.c.d/n" is kind "cidr" with the   *)
(* address bytes and the prefix length written in it (n may exceed the     *)
(* family's width, the address may have bits right of the prefix);         *)
(* "a.b.c.d" is kind "addr"; anything else ("invalid_cidr") is "garbage".  *)

CidrText(fam, bytes, bits) == [kind |-> "cidr", fam |-> fam, bytes |-> bytes, bits |-> bits]
AddrText(fam, bytes) == [kind |-> "addr", fam |-> fam, bytes |-> bytes, bits |-> MaxBits(fam)]
GarbageText == [kind |-> "garbage", fam |-> 0, bytes |-> <<>>, bits |-> 0]
NoText == [kind |-> "none", fam |-> 0, bytes |-> <<>>, bits |-> 0]

NoNet == [fam |-> 0, bytes |-> <<>>, bits |-> 0]

\* mutant of ip_network: strict=False, the host bits are cleared instead of
\* being refused
ip_network_lax(t) ==
    IF t.kind # "cidr" \/ t.bits > MaxBits(t.fam)
    THEN [ok |-> FALSE, net |-> NoNet,
          error |-> "does not appear to be an IPv4 or IPv6 network"]
    ELSE [ok |-> TRUE,
          net |-> [fam |-> t.fam, bytes |-> NetworkAddress(t.bytes, t.bits), bits |-> t.bits],
          error |-> ""]

\* ipaddress.ip_network(text), strict=True by default (app.py:83, app.py:109,
\* and asyncpg's cidr codec for the str bound to a CIDR column)
ip_network(t) ==
    IF t.kind # "cidr" \/ t.bits > MaxBits(t.fam)
    THEN [ok |-> FALSE, net |-> NoNet,
          error |-> "does not appear to be an IPv4 or IPv6 network"]
    ELSE IF HasHostBits(t.bytes, t.bits)
    THEN [ok |-> FALSE, net |-> NoNet, error |-> "has host bits set"]
    ELSE [ok |-> TRUE, net |-> [fam |-> t.fam, bytes |-> t.bytes, bits |-> t.bits],
          error |-> ""]

\* str(ipaddress.ip_network(row["cidr"])) (app.py:98)
NetworkStr(net) == CidrText(net.fam, net.bytes, net.bits)

----------------------------------------------------------------------------
(* PostgreSQL network containment *)

\* network.c bitncmp(l, r, n): compare the first n bits; 0 iff they agree
bitncmp(l, r, n) ==
    LET b == n \div 8
        k == n % 8
    IN  IF \E i \in 1..b : l[i] # r[i] THEN 1
        ELSE IF k = 0 THEN 0
        ELSE IF l[b + 1] \div Pow2(8 - k) # r[b + 1] \div Pow2(8 - k) THEN 1
        ELSE 0

\* network.c network_sub(a1, a2), the operator `a1 << a2`: is a1 STRICTLY
\* contained by a2
network_sub(a1, a2) ==
    /\ a1.fam = a2.fam
    /\ a1.bits > a2.bits
    /\ bitncmp(a1.bytes, a2.bytes, a2.bits) = 0

\* crud.is_ip_suspicious(ip): SELECT EXISTS (... WHERE CAST(ip AS INET) << cidr)
is_ip_suspicious(ip) ==
    \E r \in suspicious_ip_ranges : network_sub(Inet(ip.fam, ip.bytes), r)

\* crud.is_user_flagged(user)
is_user_flagged(user) == user \in flagged_users

\* crud.is_ip_flagged(ip): flagged_ips.c.ip == ip
is_ip_flagged(ip) == Inet(ip.fam, ip.bytes) \in flagged_ips

----------------------------------------------------------------------------
(* Range endpoints (app.py) *)

\* a response: the endpoint, its argument, the HTTP status, the message or
\* error detail, the listed ranges (get_ip_ranges), the boolean found
\* (is_ip_suspicious), the rows returned (get_suspicious_events)
Response(op, arg, status, detail, body) ==
    [op |-> op, arg |-> arg, status |-> status, detail |-> detail, body |-> body,
     found |-> FALSE, rows |-> <<>>]

NoResponse == Response("none", NoText, 0, "", {})

\* what `await database.execute(query)` returns for a statement without
\* RETURNING on the asyncpg backend: connection.fetchval(...) of no row
ExecuteResult == "None"

\* Python `x == 0` for x an int or None
EqualsZero(x) == x # "None" /\ x = 0

\* mutant of add_ip_range: INSERT ... ON CONFLICT DO NOTHING, a stored range
\* is answered like a new one
add_ip_range_upsert(t) ==
    LET v == ip_network(t)
    IN  /\ \/ /\ ~v.ok
              /\ resp' = Response("add", t, 422, v.error, {})
              /\ UNCHANGED suspicious_ip_ranges
           \/ /\ v.ok
              /\ v.net \in suspicious_ip_ranges
              /\ resp' = Response("add", t, 201, "IP range added", {})
              /\ UNCHANGED suspicious_ip_ranges
           \/ /\ v.ok
              /\ v.net \notin suspicious_ip_ranges
              /\ Cardinality(suspicious_ip_ranges) < MaxRanges
              /\ suspicious_ip_ranges' = suspicious_ip_ranges \cup {v.net}
              /\ resp' = Response("add", t, 201, "IP range added", {})
        /\ UNCHANGED <<flagged_users, flagged_ips, events>>
        /\ UNCHANGED taskVars

\* app.add_ip_range + crud.add_ip_range
add_ip_range(t) ==
    LET v == ip_network(t)
    IN  /\ \/ /\ ~v.ok                                   \* except ValueError
              /\ resp' = Response("add", t, 422, v.error, {})
              /\ UNCHANGED suspicious_ip_ranges
           \/ /\ v.ok
              /\ v.net \in suspicious_ip_ranges          \* except UniqueViolationError
              /\ resp' = Response("add", t, 422, "This IP range already exists.", {})
              /\ UNCHANGED suspicious_ip_ranges
           \/ /\ v.ok
              /\ v.net \notin suspicious_ip_ranges
              /\ Cardinality(suspicious_ip_ranges) < MaxRanges
              /\ suspicious_ip_ranges' = suspicious_ip_ranges \cup {v.net}
              /\ resp' = Response("add", t, 201, "IP range added", {})
        /\ UNCHANGED <<flagged_users, flagged_ips, events>>
        /\ UNCHANGED taskVars

\* app.get_ip_ranges + crud.get_ip_ranges
get_ip_ranges ==
    /\ resp' = Response("list", NoText, 200, "",
                        {NetworkStr(r) : r \in suspicious_ip_ranges})
    /\ UNCHANGED storeVars
    /\ UNCHANGED taskVars

\* mutant of delete_ip_range: deleting a range also drops the flags of the
\* addresses inside it
delete_ip_range_unflags(t) ==
    LET v == ip_network(t)
    IN  /\ v.ok
        /\ suspicious_ip_ranges' = suspicious_ip_ranges \ {v.net}
        /\ flagged_ips' = { a \in flagged_ips : ~network_sub(a, v.net) }
        /\ resp' = Response("delete", t, 200, "IP range deleted", {})
        /\ UNCHANGED <<flagged_users, events>>
        /\ UNCHANGED taskVars

\* app.delete_ip_range + crud.delete_ip_range
delete_ip_range(t) ==
    LET v == ip_network(t)
        rows_affected == ExecuteResult
    IN  /\ \/ /\ ~v.ok                                   \* except Exception
              /\ resp' = Response("delete", t, 422, "IP range not found", {})
              /\ UNCHANGED suspicious_ip_ranges
           \/ /\ v.ok
              /\ suspicious_ip_ranges' = suspicious_ip_ranges \ {v.net}
              /\ IF EqualsZero(rows_affected)                   \* raise ValueError
                 THEN resp' = Response("delete", t, 422, "IP range not found", {})
                 ELSE resp' = Response("delete", t, 200, "IP range deleted", {})
        /\ UNCHANGED <<flagged_users, flagged_ips, events>>
        /\ UNCHANGED taskVars

\* a call of crud.is_ip_suspicious(ip) on the current table, its result kept
contains(ip) ==
    /\ resp' = [Response("contains", AddrText(ip.fam, ip.bytes), 200, "", {})
                    EXCEPT !.found = is_ip_suspicious(ip)]
    /\ UNCHANGED storeVars
    /\ UNCHANGED taskVars

----------------------------------------------------------------------------
(* Event processing (app.process_event_endpoint, crud.process_event) *)

\* the request tasks that may run concurrently
Procs == {"t1", "t2"}

\* marks a required field the request body leaves out
Missing == "<missing>"

\* pydantic validation of one element of List[Event] (app.py:41-50):
\* source_ip must parse as IPvAnyAddress, required fields must be present
\* mutant of ValidEvent: `username: Optional[str] = None`, only the address
\* is validated
ValidEventIpOnly(raw) == raw.source_ip.kind = "addr"

ValidEvent(raw) == raw.source_ip.kind = "addr" /\ raw.username # Missing

\* the validated Event: source_ip becomes an ipaddress object
ParsedEvent(raw) ==
    [raw EXCEPT !.source_ip = [fam |-> raw.source_ip.fam, bytes |-> raw.source_ip.bytes]]

NoError == [exception |-> "none", at |-> "none"]

\* the task is not handling a request
Terminal == {"idle", "done", "failed", "rejected"}

\* events the request of task q may still insert
Pending(q) == IF pc[q] \in Terminal THEN 0 ELSE Len(batch[q]) - idx[q] + 1

RECURSIVE SumPending(_)
SumPending(Q) ==
    IF Q = {} THEN 0
    ELSE LET q == CHOOSE x \in Q : TRUE IN Pending(q) + SumPending(Q \ {q})

\* the event process_event is working on
Current(p) == batch[p][idx[p]]

\* crud.py:118, and the locals of a call that has not read anything yet
ResetLocals(p) ==
    /\ user_is_flagged' = [user_is_flagged EXCEPT ![p] = FALSE]
    /\ ip_is_flagged' = [ip_is_flagged EXCEPT ![p] = FALSE]
    /\ ip_is_suspicious' = [ip_is_suspicious EXCEPT ![p] = FALSE]
    /\ is_suspicious' = [is_suspicious EXCEPT ![p] = FALSE]

\* POST /process-event arrives at task p with body `raws` (app.py:119-125):
\* a body with an invalid element is answered 422 before the handler runs,
\* the answer carries the body back (app.py:67-73)
request(p, raws) ==
    /\ pc[p] \in Terminal
    /\ Len(events) + SumPending(Procs \ {p}) + Len(raws) <= MaxEvents
    /\ IF \E i \in 1..Len(raws) : ~ValidEvent(raws[i])
       THEN /\ pc' = [pc EXCEPT ![p] = "rejected"]
            /\ batch' = [batch EXCEPT ![p] = raws]
            /\ idx' = [idx EXCEPT ![p] = 0]
       ELSE /\ pc' = [pc EXCEPT ![p] = IF raws = <<>> THEN "done" ELSE "is_user_flagged"]
            /\ batch' = [batch EXCEPT ![p] = [i \in 1..Len(raws) |-> ParsedEvent(raws[i])]]
            /\ idx' = [idx EXCEPT ![p] = IF raws = <<>> THEN 0 ELSE 1]
    /\ results' = [results EXCEPT ![p] = <<>>]
    /\ err' = [err EXCEPT ![p] = NoError]
    /\ ResetLocals(p)
    /\ UNCHANGED <<storeVars, resp>>

\* crud.py:119  user_is_flagged = await is_user_flagged(user)
read_user_flag(p) ==
    /\ pc[p] = "is_user_flagged"
    /\ user_is_flagged' = [user_is_flagged EXCEPT ![p] = is_user_flagged(Current(p).username)]
    /\ pc' = [pc EXCEPT ![p] = "is_ip_flagged"]
    /\ UNCHANGED <<storeVars, resp, batch, idx, ip_is_flagged, ip_is_suspicious,
                   is_suspicious, results, err>>

\* crud.py:120  ip_is_flagged = await is_ip_flagged(ip)
read_ip_flag(p) ==
    /\ pc[p] = "is_ip_flagged"
    /\ ip_is_flagged' = [ip_is_flagged EXCEPT ![p] = is_ip_flagged(Current(p).source_ip)]
    /\ pc' = [pc EXCEPT ![p] = "is_ip_suspicious"]
    /\ UNCHANGED <<storeVars, resp, batch, idx, user_is_flagged, ip_is_suspicious,
                   is_suspicious, results, err>>

\* mutant of Classify: the flagged-IP signal is left out of the disjunction
ClassifyIgnoresIpFlag(userFlagged, ipFlagged, ipInRange) == ipInRange \/ userFlagged

\* mutant of Classify: is_suspicious = True is set outside the `if`
ClassifyAlways(userFlagged, ipFlagged, ipInRange) == TRUE

\* crud.py:123  the classification
Classify(userFlagged, ipFlagged, ipInRange) == ipInRange \/ userFlagged \/ ipFlagged

\* mutant of AfterClassify: `elif not ip_is_flagged` -- the IP is flagged only
\* when the user needed no flag
AfterClassifyElif(p, suspicious, done) ==
    IF suspicious /\ ~user_is_flagged[p] /\ done < 1 THEN "flag_user"
    ELSE IF suspicious /\ user_is_flagged[p] /\ ~ip_is_flagged[p] /\ done < 2 THEN "flag_ip"
    ELSE "insert"

\* where process_event continues once is_suspicious is known and the first
\* `done` of the two flag inserts are behind it (crud.py:123-132)
AfterClassify(p, suspicious, done) ==
    IF suspicious /\ ~user_is_flagged[p] /\ done < 1 THEN "flag_user"
    ELSE IF suspicious /\ ~ip_is_flagged[p] /\ done < 2 THEN "flag_ip"
    ELSE "insert"

\* crud.py:121-126  ip_is_suspicious = await is_ip_suspicious(ip), then the
\* branch on the three values read
read_ip_range(p) ==
    /\ pc[p] = "is_ip_suspicious"
    /\ LET inRange == is_ip_suspicious(Current(p).source_ip)
           suspicious == Classify(user_is_flagged[p], ip_is_flagged[p], inRange)
       IN  /\ ip_is_suspicious' = [ip_is_suspicious EXCEPT ![p] = inRange]
           /\ is_suspicious' = [is_suspicious EXCEPT ![p] = suspicious]
           /\ pc' = [pc EXCEPT ![p] = AfterClassify(p, suspicious, 0)]
    /\ UNCHANGED <<storeVars, resp, batch, idx, user_is_flagged, ip_is_flagged,
                   results, err>>

\* the request task dies of an exception no handler catches
Raise(p, exception) ==
    /\ err' = [err EXCEPT ![p] = [exception |-> exception, at |-> pc[p]]]
    /\ pc' = [pc EXCEPT ![p] = "failed"]

\* mutant of flag_user: the insert is lost, the call goes on
flag_user_lost(p) ==
    /\ pc[p] = "flag_user"
    /\ pc' = [pc EXCEPT ![p] = IF ~ip_is_flagged[p] THEN "flag_ip" ELSE "insert"]
    /\ UNCHANGED <<storeVars, resp, batch, idx, user_is_flagged, ip_is_flagged,
                   ip_is_suspicious, is_suspicious, results, err>>

\* crud.py:127 -> crud.flag_user(user): a plain INSERT into a table whose
\* primary key is the user
flag_user(p) ==
    /\ pc[p] = "flag_user"
    /\ IF Current(p).username \in flagged_users
       THEN /\ Raise(p, "UniqueViolationError")
            /\ UNCHANGED flagged_users
       ELSE /\ flagged_users' = flagged_users \cup {Current(p).username}
            /\ pc' = [pc EXCEPT ![p] = AfterClassify(p, TRUE, 1)]
            /\ UNCHANGED err
    /\ UNCHANGED <<suspicious_ip_ranges, flagged_ips, events, resp, batch, idx,
                   user_is_flagged, ip_is_flagged, ip_is_suspicious, is_suspicious,
                   results>>

\* mutant of flag_ip: the insert is lost, the call goes on
flag_ip_lost(p) ==
    /\ pc[p] = "flag_ip"
    /\ pc' = [pc EXCEPT ![p] = "insert"]
    /\ UNCHANGED <<storeVars, resp, batch, idx, user_is_flagged, ip_is_flagged,
                   ip_is_suspicious, is_suspicious, results, err>>

\* crud.py:130 -> crud.flag_ip(ip): a plain INSERT into a table whose primary
\* key is the ip
flag_ip(p) ==
    /\ pc[p] = "flag_ip"
    /\ LET ip == Inet(Current(p).source_ip.fam, Current(p).source_ip.bytes)
       IN  IF ip \in flagged_ips
           THEN /\ Raise(p, "UniqueViolationError")
                /\ UNCHANGED flagged_ips
           ELSE /\ flagged_ips' = flagged_ips \cup {ip}
                /\ pc' = [pc EXCEPT ![p] = "insert"]
                /\ UNCHANGED err
    /\ UNCHANGED <<suspicious_ip_ranges, flagged_users, events, resp, batch, idx,
                   user_is_flagged, ip_is_flagged, ip_is_suspicious, is_suspicious,
                   results>>

\* mutant of EventRow: the key is not generated, every row gets id 1
EventRowSameId(event, suspicious, id) ==
    [id |-> 1,
     timestamp |-> event.timestamp,
     username |-> event.username,
     source_ip |-> Inet(event.source_ip.fam, event.source_ip.bytes),
     event_type |-> event.event_type,
     file_size_mb |-> event.file_size_mb,
     application |-> event.application,
     success |-> event.success,
     is_suspicious |-> suspicious]

\* mutant of insert_event: results.insert(0, ...) instead of results.append
insert_event_prepend(p) ==
    /\ pc[p] = "insert"
    /\ events' = Append(events, [id |-> Len(events) + 1,
                                 timestamp |-> Current(p).timestamp,
                                 username |-> Current(p).username,
                                 source_ip |-> Inet(Current(p).source_ip.fam,
                                                    Current(p).source_ip.bytes),
                                 event_type |-> Current(p).event_type,
                                 file_size_mb |-> Current(p).file_size_mb,
                                 application |-> Current(p).application,
                                 success |-> Current(p).success,
                                 is_suspicious |-> is_suspicious[p]])
    /\ results' = [results EXCEPT ![p] =
                      <<[user |-> Current(p).username, ip |-> Current(p).source_ip,
                         is_suspicious |-> is_suspicious[p]]>> \o @]
    /\ IF idx[p] < Len(batch[p])
       THEN /\ idx' = [idx EXCEPT ![p] = @ + 1]
            /\ pc' = [pc EXCEPT ![p] = "is_user_flagged"]
            /\ UNCHANGED batch
       ELSE /\ pc' = [pc EXCEPT ![p] = "done"]
            /\ idx' = [idx EXCEPT ![p] = 0]
            /\ batch' = [batch EXCEPT ![p] = <<>>]
    /\ user_is_flagged' = [user_is_flagged EXCEPT ![p] = FALSE]
    /\ ip_is_flagged' = [ip_is_flagged EXCEPT ![p] = FALSE]
    /\ ip_is_suspicious' = [ip_is_suspicious EXCEPT ![p] = FALSE]
    /\ is_suspicious' = [is_suspicious EXCEPT ![p] = FALSE]
    /\ UNCHANGED <<suspicious_ip_ranges, flagged_users, flagged_ips, resp, err>>

\* mutant of insert_event: a suspicious insert also marks the earlier rows of
\* the same user suspicious (UPDATE events SET is_suspicious = true ...)
insert_event_reclassify(p) ==
    /\ pc[p] = "insert"
    /\ events' = Append([i \in 1..Len(events) |->
                            IF is_suspicious[p] /\ events[i].username = Current(p).username
                            THEN [events[i] EXCEPT !.is_suspicious = TRUE]
                            ELSE events[i]],
                        [id |-> Len(events) + 1,
                         timestamp |-> Current(p).timestamp,
                         username |-> Current(p).username,
                         source_ip |-> Inet(Current(p).source_ip.fam,
                                            Current(p).source_ip.bytes),
                         event_type |-> Current(p).event_type,
                         file_size_mb |-> Current(p).file_size_mb,
                         application |-> Current(p).application,
                         success |-> Current(p).success,
                         is_suspicious |-> is_suspicious[p]])
    /\ results' = [results EXCEPT ![p] =
                      Append(@, [user |-> Current(p).username, ip |-> Current(p).source_ip,
                                 is_suspicious |-> is_suspicious[p]])]
    /\ IF idx[p] < Len(batch[p])
       THEN /\ idx' = [idx EXCEPT ![p] = @ + 1]
            /\ pc' = [pc EXCEPT ![p] = "is_user_flagged"]
            /\ UNCHANGED batch
       ELSE /\ pc' = [pc EXCEPT ![p] = "done"]
            /\ idx' = [idx EXCEPT ![p] = 0]
            /\ batch' = [batch EXCEPT ![p] = <<>>]
    /\ user_is_flagged' = [user_is_flagged EXCEPT ![p] = FALSE]
    /\ ip_is_flagged' = [ip_is_flagged EXCEPT ![p] = FALSE]
    /\ ip_is_suspicious' = [ip_is_suspicious EXCEPT ![p] = FALSE]
    /\ is_suspicious' = [is_suspicious EXCEPT ![p] = FALSE]
    /\ UNCHANGED <<suspicious_ip_ranges, flagged_users, flagged_ips, resp, err>>

\* the row events.insert().values(...) writes (crud.py:132-141); id is the
\* autoincrement key
EventRow(event, suspicious, id) ==
    [id |-> id,
     timestamp |-> event.timestamp,
     username |-> event.username,
     source_ip |-> Inet(event.source_ip.fam, event.source_ip.bytes),
     event_type |-> event.event_type,
     file_size_mb |-> event.file_size_mb,
     application |-> event.application,
     success |-> event.success,
     is_suspicious |-> suspicious]

\* app.py:127-131  EventResponse(user, ip, is_suspicious)
EventResponse(event, suspicious) ==
    [user |-> event.username, ip |-> event.source_ip, is_suspicious |-> suspicious]

\* crud.py:132-143 and app.py:125-132: insert the event row, return
\* is_suspicious, append the result, go on with the next event of the body
\* or answer
insert_event(p) ==
    /\ pc[p] = "insert"
    /\ events' = Append(events, EventRow(Current(p), is_suspicious[p], Len(events) + 1))
    /\ results' = [results EXCEPT ![p] = Append(@, EventResponse(Current(p), is_suspicious[p]))]
    /\ IF idx[p] < Len(batch[p])
       THEN /\ idx' = [idx EXCEPT ![p] = @ + 1]
            /\ pc' = [pc EXCEPT ![p] = "is_user_flagged"]
            /\ UNCHANGED batch
       ELSE /\ pc' = [pc EXCEPT ![p] = "done"]       \* return results
            /\ idx' = [idx EXCEPT ![p] = 0]
            /\ batch' = [batch EXCEPT ![p] = <<>>]
    /\ ResetLocals(p)                                 \* the call's frame is gone
    /\ UNCHANGED <<suspicious_ip_ranges, flagged_users, flagged_ips, resp, err>>

----------------------------------------------------------------------------
(* Suspicious event retrieval (app.get_suspicious_events,                  *)
(* crud.get_suspicious_events)                                             *)

\* a start_date / end_date that is not given (None)
NoDate == <<>>
Date(t) == <<t>>

QueryArgs(limit, offset, start_date, end_date) ==
    [limit |-> limit, offset |-> offset, start_date |-> start_date, end_date |-> end_date]

\* mutant of Matching: the is_suspicious filter is missing
MatchingAll(start_date, end_date) ==
    { i \in 1..Len(events) :
        /\ (start_date # NoDate => events[i].timestamp >= start_date[1])
        /\ (end_date # NoDate => events[i].timestamp <= end_date[1]) }

\* crud.py:163-169: positions in the events table of the rows the WHERE
\* clauses keep
Matching(start_date, end_date) ==
    { i \in 1..Len(events) :
        /\ events[i].is_suspicious = TRUE
        /\ (start_date # NoDate => events[i].timestamp >= start_date[1])
        /\ (end_date # NoDate => events[i].timestamp <= end_date[1]) }

\* crud.py:172 ORDER BY timestamp DESC: every order of the rows at positions
\* S with timestamps descending; rows of equal timestamp come in any order,
\* the statement names no tie-break
RECURSIVE Orders(_)
Orders(S) ==
    IF S = {} THEN {<<>>}
    ELSE UNION { { <<events[i]>> \o o : o \in Orders(S \ {i}) } :
                 i \in { j \in S : \A k \in S : events[j].timestamp >= events[k].timestamp } }

\* crud.py:172 .limit(limit).offset(offset)
Page(rows, limit, offset) ==
    SubSeq(rows, offset + 1, IF offset + limit < Len(rows) THEN offset + limit ELSE Len(rows))

\* GET /suspicious-events: limit in [1, 10000] and offset >= 0 are checked
\* by the Query(...) declarations (app.py:138-139), a violation is a 422
get_suspicious_events(a) ==
    /\ IF a.limit < 1 \/ a.limit > 10000 \/ a.offset < 0
       THEN resp' = Response("query", a, 422, "validation error", {})
       ELSE \E page \in { Page(ordered, a.limit, a.offset) :
                             ordered \in Orders(Matching(a.start_date, a.end_date)) } :
                resp' = [Response("query", a, 200, "", {}) EXCEPT !.rows = page]
    /\ UNCHANGED storeVars
    /\ UNCHANGED taskVars

----------------------------------------------------------------------------
(* Inputs *)

\* 173.99.253.17 (test_app.py sample_event) and its neighbours at the edges
\* of 173.99.253.0/24 and of 173.99.253.17/32
B4 == <<173, 99, 253, 17>>
\* 2001:db8::1
B6 == <<32, 1, 13, 184, 0, 0, 0, 0, 0, 0, 0, 0, 0, 0, 0, 1>>

IP(fam, bytes) == [fam |-> fam, bytes |-> bytes]

ProbeIPs ==
    { IP(4, B4), IP(4, <<173, 99, 253, 16>>), IP(4, <<173, 99, 253, 18>>),
      IP(4, <<173, 99, 253, 0>>), IP(4, <<173, 99, 253, 255>>),
      IP(4, <<173, 99, 252, 255>>), IP(4, <<173, 99, 254, 0>>),
      IP(4, <<10, 0, 0, 5>>), IP(4, <<32, 1, 13, 184>>),
      IP(6, B6),
      IP(6, <<32, 1, 13, 184, 0, 0, 0, 0, 0, 0, 0, 0, 0, 0, 0, 0>>),
      IP(6, <<32, 1, 13, 185, 0, 0, 0, 0, 0, 0, 0, 0, 0, 0, 0, 1>>) }

\* IPv6 prefix lengths tried (IPv4: every length 0..32)
V6Lens == {0, 31, 32, 64, 127, 128}

\* the networks the containment test is tried against: every IPv4 prefix
\* of B4, some IPv6 prefixes of B6, and one network apart from both
ContainsNets ==
    { [fam |-> 4, bytes |-> NetworkAddress(B4, n), bits |-> n] : n \in 0..32 }
    \cup { [fam |-> 6, bytes |-> NetworkAddress(B6, n), bits |-> n] : n \in V6Lens }
    \cup { [fam |-> 4, bytes |-> <<10, 0, 0, 0>>, bits |-> 8] }

\* CIDR texts submitted to the range endpoints: "173.99.253.0/24"
\* (test_app.py sample_ip_range), a single-address range, an IPv6 range,
\* and texts ip_network rejects: host bits set, prefix too long,
\* "invalid_cidr" (test_app.py sample_invalid_ip_range)
RangeTexts ==
    { CidrText(4, <<173, 99, 253, 0>>, 24), CidrText(4, B4, 32),
      CidrText(6, NetworkAddress(B6, 32), 32),
      CidrText(4, B4, 24), CidrText(6, B6, 64), CidrText(4, B4, 33), GarbageText }

\* request bodies of POST /process-event
Users == {"alice", "bob"}

RawEvent(ts, user, iptext) ==
    [timestamp |-> ts, username |-> user, source_ip |-> iptext, event_type |-> "login",
     file_size_mb |-> 5, application |-> "email", success |-> TRUE]

\* 173.99.253.17 lies in 173.99.253.0/24, 10.0.0.5 in no range submitted
EngineIPs == { IP(4, B4), IP(4, <<10, 0, 0, 5>>) }

\* one-event bodies: each user from each address
EngineBodies ==
    { <<RawEvent(1, u, AddrText(ip.fam, ip.bytes))>> : u \in Users, ip \in EngineIPs }

EngineTexts == { CidrText(4, <<173, 99, 253, 0>>, 24) }

\* GET /suspicious-events with its defaults (app.py:138-141)
EngineQueries == { QueryArgs(100, 0, NoDate, NoDate) }

\* timestamps of the logged events the query is tried on
QueryTimes == {1, 2}

\* GET /suspicious-events: pages of 1 and 2 rows at offsets 0, 1 and 3, with
\* and without either date bound, and arguments the Query(...) declarations
\* refuse
QueryStarts == {NoDate, Date(2)}
QueryEnds == {NoDate, Date(1)}

QueryInputs ==
    { QueryArgs(l, o, s, e) :
        l \in {1, 2}, o \in {0, 1, 3}, s \in QueryStarts, e \in QueryEnds }
    \cup { QueryArgs(0, 0, NoDate, NoDate), QueryArgs(10001, 0, NoDate, NoDate),
           QueryArgs(1, -1, NoDate, NoDate) }

\* the row with identifier id of a log written while 173.99.253.0/24 is
\* stored: alice from 173.99.253.17 is logged suspicious, bob from 10.0.0.5
\* is not
QueryRows(id) ==
    { EventRow(ParsedEvent(RawEvent(ts, "alice", AddrText(4, B4))), TRUE, id) :
        ts \in QueryTimes }
    \cup { EventRow(ParsedEvent(RawEvent(2, "bob", AddrText(4, <<10, 0, 0, 5>>))), FALSE, id) }

\* the logs of n such rows, identifiers 1..n in insertion order
RECURSIVE QueryLogs(_)
QueryLogs(n) ==
    IF n = 0 THEN {<<>>}
    ELSE { Append(l, r) : l \in QueryLogs(n - 1), r \in QueryRows(n) }

\* elements of multi-event bodies: three events that validate, one with
\* source_ip "invalid_cidr"-like text and one without its username
BatchEvents ==
    { RawEvent(1, "alice", AddrText(4, B4)),
      RawEvent(1, "alice", AddrText(4, <<10, 0, 0, 5>>)),
      RawEvent(1, "bob", AddrText(4, <<10, 0, 0, 5>>)),
      RawEvent(1, "alice", GarbageText),
      RawEvent(1, Missing, AddrText(4, B4)) }

\* the bodies of exactly n such events
RECURSIVE BodiesOfLen(_)
BodiesOfLen(n) ==
    IF n = 0 THEN {<<>>}
    ELSE { Append(b, e) : b \in BodiesOfLen(n - 1), e \in BatchEvents }

\* bodies of POST /process-event of up to MaxEvents events
BatchBodies == UNION { BodiesOfLen(n) : n \in 0..MaxEvents }

\* the sets of at most k elements of S
RECURSIVE SubsetsUpTo(_, _)
SubsetsUpTo(S, k) ==
    IF k = 0 THEN {{}}
    ELSE LET R == SubsetsUpTo(S, k - 1)
         IN  R \cup { r \cup {x} : r \in R, x \in S }

----------------------------------------------------------------------------
(* Specifications *)

Init ==
    /\ suspicious_ip_ranges = {}
    /\ flagged_users = {}
    /\ flagged_ips = {}
    /\ events = <<>>
    /\ resp = NoResponse
    /\ pc = [p \in Procs |-> "idle"]
    /\ batch = [p \in Procs |-> <<>>]
    /\ idx = [p \in Procs |-> 0]
    /\ user_is_flagged = [p \in Procs |-> FALSE]
    /\ ip_is_flagged = [p \in Procs |-> FALSE]
    /\ ip_is_suspicious = [p \in Procs |-> FALSE]
    /\ is_suspicious = [p \in Procs |-> FALSE]
    /\ results = [p \in Procs |-> <<>>]
    /\ err = [p \in Procs |-> NoError]

\* the service: concurrent event requests and range management
Next ==
    \/ \E p \in Procs, body \in EngineBodies : request(p, body)
    \/ \E p \in Procs : read_user_flag(p)
    \/ \E p \in Procs : read_ip_flag(p)
    \/ \E p \in Procs : read_ip_range(p)
    \/ \E p \in Procs : flag_user(p)
    \/ \E p \in Procs : flag_ip(p)
    \/ \E p \in Procs : insert_event(p)
    \/ \E t \in EngineTexts : add_ip_range(t)
    \/ \E t \in EngineTexts : delete_ip_range(t)
    \/ \E a \in EngineQueries : get_suspicious_events(a)

Spec == Init /\ [][Next]_vars

\* the range store alone: range endpoints and containment tests
NextRange ==
    \/ \E t \in RangeTexts : add_ip_range(t)
    \/ \E t \in RangeTexts : delete_ip_range(t)
    \/ get_ip_ranges
    \/ \E ip \in ProbeIPs : contains(ip)

SpecRange == Init /\ [][NextRange]_vars

\* the containment test alone, on every range table of at most MaxRanges
\* networks (each is reached by that many add_ip_range calls)
InitContains ==
    /\ Init!2 /\ Init!3 /\ Init!4 /\ Init!5 /\ Init!6 /\ Init!7 /\ Init!8
    /\ Init!9 /\ Init!10 /\ Init!11 /\ Init!12 /\ Init!13 /\ Init!14
    /\ suspicious_ip_ranges \in SubsetsUpTo(ContainsNets, MaxRanges)

NextContains == \E ip \in ProbeIPs : contains(ip)

SpecContains == InitContains /\ [][NextContains]_vars

\* one client sending multi-event requests, valid and invalid, one after the
\* other, next to range management
BatchTask == "t1"

NextBatch ==
    \/ \E body \in BatchBodies : request(BatchTask, body)
    \/ read_user_flag(BatchTask)
    \/ read_ip_flag(BatchTask)
    \/ read_ip_range(BatchTask)
    \/ flag_user(BatchTask)
    \/ flag_ip(BatchTask)
    \/ insert_event(BatchTask)
    \/ \E t \in EngineTexts : add_ip_range(t)
    \/ \E t \in EngineTexts : delete_ip_range(t)

SpecBatch == Init /\ [][NextBatch]_vars

\* the query alone, on every log of at most MaxLog events that sequential
\* process_event calls write once 173.99.253.0/24 is stored
InitQuery ==
    /\ Init!5 /\ Init!6 /\ Init!7 /\ Init!8 /\ Init!9
    /\ Init!10 /\ Init!11 /\ Init!12 /\ Init!13 /\ Init!14
    /\ events \in UNION { QueryLogs(n) : n \in 0..MaxLog }
    /\ suspicious_ip_ranges = { ip_network(CidrText(4, <<173, 99, 253, 0>>, 24)).net }
    /\ flagged_users = { events[i].username : i \in { j \in 1..Len(events) : events[j].is_suspicious } }
    /\ flagged_ips = { events[i].source_ip : i \in { j \in 1..Len(events) : events[j].is_suspicious } }

NextQuery == \E a \in QueryInputs : get_suspicious_events(a)

SpecQuery == InitQuery /\ [][NextQuery]_vars

----------------------------------------------------------------------------
(* Properties *)

Last(q) == q[Len(q)]

Alice173 == [user |-> "alice", ip |-> IP(4, B4), is_suspicious |-> TRUE]
Net173 == [fam |-> 4, bytes |-> <<173, 99, 253, 0>>, bits |-> 24]

\* a step of task p that executes the statement at position `at`
Step(p, at) == pc[p] = at /\ pc'[p] # at

\* C1: each of the three predicates is read from the store as it is when the
\* call reads it, and the value process_event returns and logs is their
\* disjunction userFlagged \/ ipFlagged \/ ipInRange.
C1_Classification ==
    [][\A p \in Procs :
        /\ Step(p, "is_user_flagged") =>
              user_is_flagged'[p] = (Current(p).username \in flagged_users)
        /\ Step(p, "is_ip_flagged") =>
              ip_is_flagged'[p] =
                 (Inet(Current(p).source_ip.fam, Current(p).source_ip.bytes) \in flagged_ips)
        /\ Step(p, "is_ip_suspicious") =>
              /\ ip_is_suspicious'[p] = is_ip_suspicious(Current(p).source_ip)
              /\ is_suspicious'[p] =
                    (user_is_flagged[p] \/ ip_is_flagged[p] \/ ip_is_suspicious'[p])
        /\ Step(p, "insert") =>
              /\ Last(events').is_suspicious =
                    (user_is_flagged[p] \/ ip_is_flagged[p] \/ ip_is_suspicious[p])
              /\ Last(results'[p]).is_suspicious = Last(events').is_suspicious
      ]_vars

\* C1 witness: a call about to log TRUE on the flagged-IP signal alone
C1_Witness ==
    \E p \in Procs :
        /\ pc[p] = "insert"
        /\ is_suspicious[p]
        /\ ip_is_flagged[p] /\ ~user_is_flagged[p] /\ ~ip_is_suspicious[p]

\* C2: when a request has returned true for an event, the event's user and
\* its source IP are both flagged.
C2_SuspiciousFlagsBoth ==
    \A p \in Procs :
        pc[p] = "done" =>
            \A i \in 1..Len(results[p]) :
                results[p][i].is_suspicious =>
                    /\ results[p][i].user \in flagged_users
                    /\ Inet(results[p][i].ip.fam, results[p][i].ip.bytes) \in flagged_ips

\* C2 witness: range 173.99.253.0/24 stored, alice from 173.99.253.17 was
\* the first event and returned true; alice and the address are flagged
C2_Witness ==
    \E p \in Procs :
        /\ pc[p] = "done"
        /\ results[p] = <<Alice173>>
        /\ suspicious_ip_ranges = {Net173}
        /\ Len(events) = 1
        /\ flagged_users = {"alice"}
        /\ flagged_ips = {Inet(4, B4)}

\* this call of process_event has inserted its user / its IP into the flag
\* tables
WroteUserFlag(p) ==
    /\ is_suspicious[p] /\ ~user_is_flagged[p]
    /\ \/ pc[p] \in {"flag_ip", "insert"}
       \/ pc[p] = "failed" /\ err[p].at = "flag_ip"
WroteIpFlag(p) ==
    /\ is_suspicious[p] /\ ~ip_is_flagged[p]
    /\ pc[p] = "insert"

\* C3: process_event is atomic per event: a call that failed at one of its
\* store steps has left no flag row behind (its event row is never written).
C3_AtomicPerEvent ==
    \A p \in Procs : pc[p] = "failed" => ~WroteUserFlag(p) /\ ~WroteIpFlag(p)

\* C4: of two calls that raced on the same previously-unflagged user (or IP),
\* neither fails: when one has completed and logged its suspicious event, the
\* other has not died of the duplicate flag insert.
C4_ConcurrentFlagInsertIgnored ==
    \A p \in Procs : \A q \in Procs \ {p} :
        (pc[q] = "done" /\ pc[p] = "failed") =>
            \A i \in 1..Len(results[q]) :
                results[q][i].is_suspicious =>
                    /\ ~(err[p].at = "flag_user" /\ results[q][i].user = Current(p).username)
                    /\ ~(err[p].at = "flag_ip" /\ results[q][i].ip = Current(p).source_ip)

\* some row of the log is a suspicious event of user u / from address a
LoggedSuspiciousUser(u) ==
    \E i \in 1..Len(events) : events[i].is_suspicious /\ events[i].username = u
LoggedSuspiciousIp(a) ==
    \E i \in 1..Len(events) : events[i].is_suspicious /\ events[i].source_ip = a

\* C5: flag propagation.  A call that reads the user flag after a suspicious
\* event of that user was returned reads it set (same for the IP flag); and
\* a call that read either flag set returns true, whatever its address, with
\* its user and its IP flagged on return.
C5_FlagPropagation ==
    [][\A p \in Procs :
        /\ (Step(p, "is_user_flagged") /\ LoggedSuspiciousUser(Current(p).username))
              => user_is_flagged'[p]
        /\ (Step(p, "is_ip_flagged") /\
            LoggedSuspiciousIp(Inet(Current(p).source_ip.fam, Current(p).source_ip.bytes)))
              => ip_is_flagged'[p]
        /\ (Step(p, "insert") /\ (user_is_flagged[p] \/ ip_is_flagged[p])) =>
              /\ Last(results'[p]).is_suspicious
              /\ Last(events').is_suspicious
              /\ Current(p).username \in flagged_users'
              /\ Inet(Current(p).source_ip.fam, Current(p).source_ip.bytes) \in flagged_ips'
      ]_vars

\* C5 witness: with alice flagged by an earlier event, her event from
\* 10.0.0.5, an address in no range, returned true and 10.0.0.5 is flagged
C5_Witness ==
    \E p \in Procs :
        /\ pc[p] = "done"
        /\ results[p] = <<[user |-> "alice", ip |-> IP(4, <<10, 0, 0, 5>>),
                           is_suspicious |-> TRUE]>>
        /\ Len(events) = 2
        /\ events[1].username = "alice" /\ events[1].is_suspicious
        /\ Inet(4, <<10, 0, 0, 5>>) \in flagged_ips

\* C6: flags are monotonic: no step of any operation removes a flagged user
\* or a flagged IP.
C6_FlagsMonotonic ==
    [][flagged_users \subseteq flagged_users' /\ flagged_ips \subseteq flagged_ips']_vars

\* C6 witness: the range that caused the flags was deleted, the flags stand
C6_Witness ==
    /\ resp.op = "delete" /\ resp.status = 200
    /\ suspicious_ip_ranges = {}
    /\ flagged_users # {}
    /\ flagged_ips = {Inet(4, B4)}

\* C7: a call that found the user unflagged, the IP unflagged and the IP in
\* no range goes straight to the insert, writes nothing to the flag and range
\* tables, appends exactly one row with is_suspicious = false and returns
\* false.
C7_CleanEventFrame ==
    [][\A p \in Procs :
        /\ (Step(p, "is_ip_suspicious") /\ ~user_is_flagged[p] /\ ~ip_is_flagged[p]
            /\ ~is_ip_suspicious(Current(p).source_ip))
              => /\ pc'[p] = "insert"
                 /\ is_suspicious'[p] = FALSE
                 /\ UNCHANGED storeVars
        /\ (Step(p, "insert") /\ ~user_is_flagged[p] /\ ~ip_is_flagged[p]
            /\ ~ip_is_suspicious[p])
              => /\ Len(events') = Len(events) + 1
                 /\ SubSeq(events', 1, Len(events)) = events
                 /\ Last(events').is_suspicious = FALSE
                 /\ Last(events').username = Current(p).username
                 /\ Last(results'[p]).is_suspicious = FALSE
                 /\ UNCHANGED <<flagged_users, flagged_ips, suspicious_ip_ranges>>
      ]_vars

\* C7 witness: empty range and flag stores, alice from 10.0.0.5 returned
\* false, one row logged, still no flags
C7_Witness ==
    \E p \in Procs :
        /\ pc[p] = "done"
        /\ results[p] = <<[user |-> "alice", ip |-> IP(4, <<10, 0, 0, 5>>),
                           is_suspicious |-> FALSE]>>
        /\ Len(events) = 1 /\ events[1].is_suspicious = FALSE
        /\ flagged_users = {} /\ flagged_ips = {} /\ suspicious_ip_ranges = {}

\* bit k (1 = most significant) of an address
Bit(bytes, k) == (bytes[((k - 1) \div 8) + 1] \div Pow2(7 - ((k - 1) % 8))) % 2

\* the address lies within the network: same family, and the address masked
\* by the prefix length is the network address
Within(ip, net) ==
    /\ ip.fam = net.fam
    /\ \A k \in 1..net.bits : Bit(ip.bytes, k) = Bit(net.bytes, k)

\* C8: is_ip_suspicious(ip) is true iff ip lies within at least one stored
\* CIDR of its family, for every prefix length 0..width, a range of a single
\* address included.
C8_ContainsIffWithin ==
    resp.op = "contains" =>
        (resp.found <=> \E r \in suspicious_ip_ranges :
                            Within(IP(resp.arg.fam, resp.arg.bytes), r))

\* C9: flagging a user (an IP) that is already flagged does not fail and
\* leaves the flag table as it is.
C9_FlagIdempotent ==
    [][\A p \in Procs :
        /\ (Step(p, "flag_user") /\ Current(p).username \in flagged_users)
              => pc'[p] # "failed" /\ flagged_users' = flagged_users
        /\ (Step(p, "flag_ip") /\
            Inet(Current(p).source_ip.fam, Current(p).source_ip.bytes) \in flagged_ips)
              => pc'[p] # "failed" /\ flagged_ips' = flagged_ips
      ]_vars

\* the text is a CIDR with a prefix length its family allows
WellFormed(t) == t.kind = "cidr" /\ t.bits <= MaxBits(t.fam)

\* the network a well-formed text denotes once its host bits are cleared
Normalized(t) == [fam |-> t.fam, bytes |-> NetworkAddress(t.bytes, t.bits), bits |-> t.bits]

\* the step is POST /ip-ranges with text t
AddStep(t) == resp'.op = "add" /\ resp'.arg = t

\* what GET /ip-ranges answers in the state after the step
ListedNext == { NetworkStr(r) : r \in suspicious_ip_ranges' }

\* C10 as stated: every well-formed CIDR text whose normalized form is not
\* stored is accepted, host bits collapsed, and listed afterwards; malformed
\* text is rejected and nothing is stored.
C10_AddRangeNormalizes ==
    [][\A t \in RangeTexts :
        AddStep(t) =>
            /\ (WellFormed(t) /\ Normalized(t) \notin suspicious_ip_ranges)
                  => /\ resp'.status = 201
                     /\ NetworkStr(Normalized(t)) \in ListedNext
            /\ ~WellFormed(t)
                  => resp'.status = 422 /\ UNCHANGED storeVars
      ]_vars

\* C10 amended: a well-formed CIDR text WITHOUT host bits that is not stored
\* is accepted and listed afterwards; text with host bits set is rejected
\* like malformed text (422, nothing stored).
C10_AddRangeStrict ==
    [][\A t \in RangeTexts :
        AddStep(t) =>
            /\ (WellFormed(t) /\ ~HasHostBits(t.bytes, t.bits)
                /\ Normalized(t) \notin suspicious_ip_ranges)
                  => /\ resp'.status = 201
                     /\ NetworkStr(Normalized(t)) \in ListedNext
                     /\ t \in ListedNext
            /\ (~WellFormed(t) \/ HasHostBits(t.bytes, t.bits))
                  => resp'.status = 422 /\ UNCHANGED storeVars
      ]_vars

\* C10 witness: "173.99.253.0/24" was added and is listed; "173.99.253.17/24"
\* has just been refused for its host bits
C10_Witness ==
    /\ resp.op = "add" /\ resp.arg = CidrText(4, B4, 24)
    /\ resp.status = 422 /\ resp.detail = "has host bits set"
    /\ suspicious_ip_ranges = {Net173}
    /\ CidrText(4, <<173, 99, 253, 0>>, 24) \in { NetworkStr(r) : r \in suspicious_ip_ranges }

\* C11 as stated: POST /ip-ranges with a CIDR whose normalized form is already
\* stored is refused as a duplicate ("This IP range already exists.") and the
\* range table, both flag sets and the event log stay as they were.
C11_DuplicateOfNormalized ==
    [][\A t \in RangeTexts :
        (AddStep(t) /\ WellFormed(t) /\ Normalized(t) \in suspicious_ip_ranges)
            => /\ resp'.status = 422
               /\ resp'.detail = "This IP range already exists."
               /\ UNCHANGED storeVars
      ]_vars

\* C11 amended: POST /ip-ranges with a CIDR text without host bits that is
\* already stored is refused as a duplicate and nothing stored changes; a text
\* with host bits set whose network is stored is refused for its host bits,
\* not as a duplicate, and nothing stored changes either.
C11_DuplicateRejected ==
    [][\A t \in RangeTexts :
        (AddStep(t) /\ WellFormed(t) /\ Normalized(t) \in suspicious_ip_ranges)
            => /\ resp'.status = 422
               /\ UNCHANGED storeVars
               /\ resp'.detail = IF HasHostBits(t.bytes, t.bits)
                                 THEN "has host bits set"
                                 ELSE "This IP range already exists."
      ]_vars

\* C11 witness: "173.99.253.0/24" is stored and a second POST of it has just
\* been refused as a duplicate
C11_Witness ==
    /\ resp.op = "add" /\ resp.arg = CidrText(4, <<173, 99, 253, 0>>, 24)
    /\ resp.status = 422 /\ resp.detail = "This IP range already exists."
    /\ Net173 \in suspicious_ip_ranges

\* the step is DELETE /ip-ranges with text t
DeleteStep(t) == resp'.op = "delete" /\ resp'.arg = t

\* C12: DELETE /ip-ranges of a CIDR that is not stored answers "IP range not
\* found" and leaves the range table unchanged; of a stored CIDR it answers
\* 200 and removes exactly that range.
C12_DeleteRange ==
    [][\A t \in RangeTexts :
        (DeleteStep(t) /\ WellFormed(t) /\ ~HasHostBits(t.bytes, t.bits)) =>
            IF Normalized(t) \in suspicious_ip_ranges
            THEN /\ resp'.status = 200
                 /\ suspicious_ip_ranges' = suspicious_ip_ranges \ {Normalized(t)}
            ELSE /\ resp'.status = 422
                 /\ resp'.detail = "IP range not found"
                 /\ suspicious_ip_ranges' = suspicious_ip_ranges
      ]_vars

\* positions of the logged events a query with arguments a is to return:
\* suspicious, and inside the date bounds that are given
Wanted(a) ==
    { i \in 1..Len(events) :
        /\ events[i].is_suspicious
        /\ (a.start_date = NoDate \/ events[i].timestamp >= a.start_date[1])
        /\ (a.end_date = NoDate \/ events[i].timestamp <= a.end_date[1]) }

\* C13: the rows GET /suspicious-events answers are logged events that are
\* suspicious and inside the date bounds, each at most once, newest first;
\* they are the rows offset+1 .. offset+limit of the wanted events in
\* descending timestamp order (as many of them as exist).
C13_QueryPage ==
    (resp.op = "query" /\ resp.status = 200) =>
        LET a == resp.arg
            rows == resp.rows
            W == Wanted(a)
            rest == IF Cardinality(W) > a.offset THEN Cardinality(W) - a.offset ELSE 0
        IN  /\ \A k \in 1..Len(rows) : \E i \in W : events[i] = rows[k]
            /\ \A k \in 1..Len(rows) : \A m \in 1..Len(rows) :
                   /\ k # m => rows[k].id # rows[m].id
                   /\ k < m => rows[k].timestamp >= rows[m].timestamp
            /\ Len(rows) = IF rest < a.limit THEN rest ELSE a.limit
            /\ \A k \in 1..Len(rows) :
                   /\ Cardinality({ i \in W : events[i].timestamp > rows[k].timestamp })
                          <= a.offset + k - 1
                   /\ Cardinality({ i \in W : events[i].timestamp >= rows[k].timestamp })
                          >= a.offset + k

\* C13 witness: four events are logged, three of them suspicious, the newest
\* of those at time 2 and the others at time 1; limit=2, offset=0 returned the
\* one at time 2 followed by one at time 1
C13_Witness ==
    /\ resp.op = "query" /\ resp.status = 200
    /\ resp.arg = QueryArgs(2, 0, NoDate, NoDate)
    /\ Len(events) = 4
    /\ Cardinality(Wanted(resp.arg)) = 3
    /\ Cardinality({ i \in Wanted(resp.arg) : events[i].timestamp = 2 }) = 1
    /\ Len(resp.rows) = 2
    /\ resp.rows[1].timestamp = 2 /\ resp.rows[2].timestamp = 1

\* C14: the events of one request are processed one at a time in the order
\* submitted: the call for event idx returns before the call for event idx+1
\* begins, each call appends the (username, address, is_suspicious) of its
\* event to the results, the answer holds one result per event in that
\* order, and an event of the request that was found suspicious is seen as a
\* flag by every later event of the same request with its user or address.
C14_BatchInOrder ==
    [][\A p \in Procs :
        /\ (pc[p] \notin Terminal /\ pc'[p] \notin Terminal /\ idx'[p] # idx[p])
              => Step(p, "insert") /\ idx'[p] = idx[p] + 1 /\ batch'[p] = batch[p]
        /\ Step(p, "insert") =>
              /\ Len(results[p]) = idx[p] - 1
              /\ Len(events') = Len(events) + 1
              /\ Last(events').username = Current(p).username
              /\ results'[p] = Append(results[p],
                                      [user |-> Current(p).username,
                                       ip |-> Current(p).source_ip,
                                       is_suspicious |-> Last(events').is_suspicious])
              /\ IF idx[p] = Len(batch[p])
                 THEN pc'[p] = "done" /\ Len(results'[p]) = Len(batch[p])
                 ELSE pc'[p] = "is_user_flagged"
        /\ Step(p, "is_user_flagged") =>
              ((\E i \in 1..(idx[p] - 1) :
                    results[p][i].is_suspicious /\ results[p][i].user = Current(p).username)
                 => user_is_flagged'[p])
        /\ Step(p, "is_ip_flagged") =>
              ((\E i \in 1..(idx[p] - 1) :
                    results[p][i].is_suspicious /\ results[p][i].ip = Current(p).source_ip)
                 => ip_is_flagged'[p])
      ]_vars

\* C14 witness: with 173.99.253.0/24 stored on an empty log, the body
\* [alice from 173.99.253.17, alice from 10.0.0.5] was answered with two
\* results in that order, the second suspicious only through the flag the
\* first set
C14_Witness ==
    /\ pc["t1"] = "done"
    /\ Len(events) = 2
    /\ results["t1"] = << [user |-> "alice", ip |-> IP(4, B4), is_suspicious |-> TRUE],
                          [user |-> "alice", ip |-> IP(4, <<10, 0, 0, 5>>), is_suspicious |-> TRUE] >>

\* a request body element the Event model refuses: source_ip is no address or
\* the username is missing
Refused(raw) == raw.source_ip.fam \notin {4, 6} \/ raw.username = Missing

\* C15: a request with an element the Event model refuses is answered with a
\* validation error without any change to the tables and without a result;
\* every event process_event is called for, and every logged row, has an
\* address and a username.
C15_InvalidNeverProcessed ==
    [][\A p \in Procs :
        /\ (pc'[p] = "rejected" /\ <<pc[p], batch[p]>> # <<pc'[p], batch'[p]>>)
              => /\ UNCHANGED storeVars
                 /\ results'[p] = <<>>
                 /\ \E i \in 1..Len(batch'[p]) : Refused(batch'[p][i])
        /\ pc[p] = "rejected" => pc'[p] \in {"rejected", "done", "is_user_flagged"}
        /\ pc'[p] \notin Terminal
              => \A i \in 1..Len(batch'[p]) : ~Refused(batch'[p][i])
        /\ \A i \in 1..Len(events') : events'[i].username # Missing
      ]_vars

\* C15 witness: a body whose second element has no valid source_ip was
\* refused whole, the log is still empty although its first element is valid
C15_Witness ==
    /\ pc["t1"] = "rejected"
    /\ batch["t1"] = << RawEvent(1, "alice", AddrText(4, B4)),
                        RawEvent(1, "alice", GarbageText) >>
    /\ events = <<>> /\ flagged_users = {} /\ flagged_ips = {}
    /\ Net173 \in suspicious_ip_ranges

\* C16: the event log only grows at its end: no step changes or removes a row
\* that is logged, so the is_suspicious of a row stays what it was when the
\* row was written, whatever is flagged or unflagged later.
C16_LogAppendOnly ==
    [][/\ Len(events') >= Len(events)
       /\ \A i \in 1..Len(events) : events'[i] = events[i]
      ]_vars

\* C16 witness: alice's first event is logged not suspicious and stays so
\* although alice has been flagged since, by her second, suspicious event
C16_Witness ==
    /\ Len(events) = 2
    /\ events[1].username = "alice" /\ ~events[1].is_suspicious
    /\ events[2].username = "alice" /\ events[2].is_suspicious
    /\ "alice" \in flagged_users

\* the event the call of task p is for has a row logged as suspicious
LoggedSuspicious(p) ==
    \E i \in 1..Len(events) :
        /\ events[i].is_suspicious
        /\ events[i].username = Current(p).username
        /\ events[i].source_ip = Inet(Current(p).source_ip.fam, Current(p).source_ip.bytes)
        /\ events[i].timestamp = Current(p).timestamp

\* C17: a call that returns appends exactly one row, for its event, under an
\* id no logged row has, and rows are appended by nothing else; a call for an
\* event that is already logged as suspicious changes no flag set, and no
\* call classified not suspicious does (so a repeated event gets a second
\* row and leaves the flag sets as the first call left them).
C17_OneRowPerCall ==
    [][/\ \A p \in Procs :
            /\ Step(p, "insert") =>
                  /\ Len(events') = Len(events) + 1
                  /\ \A i \in 1..Len(events) :
                        events'[i] = events[i] /\ events[i].id # Last(events').id
                  /\ Last(events').username = Current(p).username
                  /\ Last(events').timestamp = Current(p).timestamp
            /\ (pc[p] \notin Terminal /\ pc'[p] # pc[p]
                 /\ (LoggedSuspicious(p) \/ (pc'[p] = "insert" /\ ~is_suspicious'[p])))
                  => flagged_users' = flagged_users /\ flagged_ips' = flagged_ips
       /\ events' # events => \E p \in Procs : Step(p, "insert")
      ]_vars

\* C17 witness: alice's event from 173.99.253.17 was processed twice, both
\* calls returned; there are two rows that differ in their id only, and the
\* flag sets are those the first call wrote
C17_Witness ==
    /\ Len(events) = 2
    /\ events[1].is_suspicious
    /\ events[2] = [events[1] EXCEPT !.id = 2]
    /\ events[1].id = 1 /\ events[1].username = "alice"
    /\ flagged_users = {"alice"}
    /\ flagged_ips = { events[1].source_ip }
    /\ \A p \in Procs : pc[p] \in {"idle", "done"}

\* C18: DELETE /ip-ranges tells its failures apart: a text that is no CIDR is
\* reported as a format error, not as "IP range not found"; a well-formed
\* CIDR that is not stored is reported as "IP range not found".
C18_DeleteErrorKinds ==
    [][\A t \in RangeTexts :
        DeleteStep(t) =>
            /\ (~WellFormed(t) \/ HasHostBits(t.bytes, t.bits))
                  => resp'.status = 422 /\ resp'.detail # "IP range not found"
            /\ (WellFormed(t) /\ ~HasHostBits(t.bytes, t.bits)
                /\ Normalized(t) \notin suspicious_ip_ranges)
                  => resp'.status = 422 /\ resp'.detail = "IP range not found"
      ]_vars

\* C19: in every state, whatever the interleaving, each logged row with
\* is_suspicious = TRUE has its username in flagged_users and its address in
\* flagged_ips.
C19_SuspiciousRowsFlagged ==
    \A i \in 1..Len(events) :
        events[i].is_suspicious =>
            /\ events[i].username \in flagged_users
            /\ events[i].source_ip \in flagged_ips

\* C19 witness: a suspicious row of bob is logged while a concurrent call for
\* alice stands between its two flag inserts
C19_Witness ==
    /\ Len(events) = 1 /\ events[1].is_suspicious /\ events[1].username = "bob"
    /\ \E p \in Procs : pc[p] = "flag_ip" /\ Current(p).username = "alice"
    /\ flagged_users = {"alice", "bob"}

\* C20: in every state in which no process_event call is in progress, each
\* flagged user is the username, and each flagged address the source address,
\* of at least one logged suspicious row.
C20_FlagsHaveEvents ==
    (\A p \in Procs : pc[p] \in Terminal) =>
        /\ \A u \in flagged_users : LoggedSuspiciousUser(u)
        /\ \A a \in flagged_ips : LoggedSuspiciousIp(a)

\* C21: within the log, per user and per address, no row logged not
\* suspicious stands after a row of the same user or of the same address
\* logged suspicious, however the process_event calls interleave.
C21_LogOrderConsistent ==
    \A i \in 1..Len(events) : \A j \in 1..Len(events) :
        (/\ i < j
         /\ events[i].is_suspicious
         /\ (events[i].username = events[j].username
             \/ events[i].source_ip = events[j].source_ip))
            => events[j].is_suspicious

\* the ids of the rows of a query answer
RowIds(rows) == { rows[k].id : k \in 1..Len(rows) }

\* the step is GET /suspicious-events for the page that follows the page
\* answered last: same dates, same limit, offset advanced by the limit
NextPageStep ==
    /\ resp.op = "query" /\ resp.status = 200
    /\ resp'.op = "query" /\ resp'.status = 200
    /\ resp'.arg.start_date = resp.arg.start_date
    /\ resp'.arg.end_date = resp.arg.end_date
    /\ resp'.arg.limit = resp.arg.limit
    /\ resp'.arg.offset = resp.arg.offset + resp.arg.limit
    /\ events' = events

\* C22: with no write in between, consecutive pages of one filter and one
\* limit share no event, and the first two pages together hold every
\* matching suspicious event when there are no more than two pages of them.
C22_PagesPartition ==
    [][NextPageStep =>
          /\ RowIds(resp.rows) \cap RowIds(resp'.rows) = {}
          /\ (resp.arg.offset = 0 /\ Cardinality(Wanted(resp.arg)) <= 2 * resp.arg.limit)
                => RowIds(resp.rows) \cup RowIds(resp'.rows)
                      = { events[i].id : i \in Wanted(resp.arg) }
      ]_vars

====
